---- MODULE Spec2Model ----
(***************************************************************************)
(* treetop: the process forest (src/src/tree.rs), the process record       *)
(* (src/src/process.rs), the pattern (src/src/regex.rs), the session state *)
(* machine (src/src/treetop_app.rs) and the event loop                     *)
(* (src/src/tui_app.rs).                                                   *)
(***************************************************************************)
EXTENDS Integers, Sequences, FiniteSets, TLC

(* ------------------------------------------------------------------ *)
(* Bounds of the model                                                 *)
(* ------------------------------------------------------------------ *)

\* identifiers of the records handed to new_forest are 1..MaxId
MaxId == 3

Ids == 1 .. MaxId

\* an identifier that no record of the input carries (a parent that is gone)
AbsentId == MaxId + 1

\* Option::None of Node::parent
NoParent == 0

(* ------------------------------------------------------------------ *)
(* Sequence helpers                                                    *)
(* ------------------------------------------------------------------ *)

Range(s) == {s[i] : i \in DOMAIN s}

RECURSIVE SumSet(_, _)
SumSet(S, f) ==
    IF S = {} THEN 0
    ELSE LET x == CHOOSE y \in S : TRUE IN f[x] + SumSet(S \ {x}, f)

(* ------------------------------------------------------------------ *)
(* Records: Process (process.rs) and the tests' TestNode (tree.rs)      *)
(* ------------------------------------------------------------------ *)

\* Process { pid, name, parent, cpu, ram }; TestNode { id, parent, to_accumulate }
\* is the same record with cpu as to_accumulate.
MkNode(id, parent, name, cpu, ram) ==
    [id |-> id, parent |-> parent, name |-> name, cpu |-> cpu, ram |-> ram]

\* Node::accumulate_from for Process: self.cpu += other.cpu; self.ram += other.ram
accumulate_from(self, other) ==
    [self EXCEPT !.cpu = @ + other.cpu, !.ram = @ + other.ram]

\* Ord::cmp on integers
int_cmp(a, b) == IF a < b THEN "Less" ELSE IF a = b THEN "Equal" ELSE "Greater"

\* f32::NAN, the one value of Process::cpu that compares with nothing
NaN == -2

\* PartialOrd::partial_cmp: Option<Ordering>, "None" when a side is NaN
partial_cmp(a, b) == IF a = NaN \/ b = NaN THEN "None" ELSE int_cmp(a, b)

\* Process::compare without its two arms that fall back to the pid
compare_no_tiebreak(self, other, sort_by) ==
    LET ordering == CASE sort_by = "Pid" -> partial_cmp(self.id, other.id)
                      [] sort_by = "Cpu" -> partial_cmp(other.cpu, self.cpu)
                      [] sort_by = "Ram" -> partial_cmp(other.ram, self.ram)
    IN  IF ordering = "None" THEN "Equal" ELSE ordering

\* Process::compare(self, other, sort_by)
compare(self, other, sort_by) ==
    LET ordering == CASE sort_by = "Pid" -> partial_cmp(self.id, other.id)
                      [] sort_by = "Cpu" -> partial_cmp(other.cpu, self.cpu)
                      [] sort_by = "Ram" -> partial_cmp(other.ram, self.ram)
    IN  IF ordering \in {"Equal", "None"} THEN int_cmp(self.id, other.id) ELSE ordering

\* Node::cmp of the two TestNode types of tree.rs: by id ascending ("Id"),
\* by accumulated value descending ("Acc"); Process::compare otherwise.
node_cmp(a, b, key) ==
    CASE key = "Id"  -> int_cmp(a.id, b.id)
      [] key = "Acc" -> int_cmp(b.cpu, a.cpu)
      [] OTHER       -> compare(a, b, key)

(* ------------------------------------------------------------------ *)
(* Forest (tree.rs): a sequence of Tree { node, children: Forest }      *)
(* ------------------------------------------------------------------ *)

EmptyForest == << >>

\* HashMap::remove
MapRemove(m, k) == [x \in (DOMAIN m) \ {k} |-> m[x]]

\* Forest::mk_forest: consumes node_map and children_map while it descends.
\* panicked records the unwrap of node_map.remove(&root) on a missing node.
RECURSIVE mk_forest(_, _, _)
mk_forest(node_map, children_map, roots) ==
    IF roots = << >>
    THEN [result |-> << >>, node_map |-> node_map,
          children_map |-> children_map, panicked |-> FALSE]
    ELSE LET root == Head(roots)
             children == IF root \in DOMAIN children_map
                         THEN children_map[root] ELSE << >>
             cm1 == MapRemove(children_map, root)
         IN  IF root \notin DOMAIN node_map
             THEN [result |-> << >>, node_map |-> node_map,
                   children_map |-> cm1, panicked |-> TRUE]
             ELSE LET nm1 == MapRemove(node_map, root)
                      sub == mk_forest(nm1, cm1, children)
                      rest == mk_forest(sub.node_map, sub.children_map, Tail(roots))
                      tree == [node |-> node_map[root], children |-> sub.result]
                  IN  [result |-> <<tree>> \o rest.result,
                       node_map |-> rest.node_map,
                       children_map |-> rest.children_map,
                       panicked |-> sub.panicked \/ rest.panicked]

\* the for loop over tree.children.0 inside compute_accumulate
RECURSIVE accumulate_children(_, _)
accumulate_children(node, children) ==
    IF children = << >> THEN node
    ELSE accumulate_children(accumulate_from(node, Head(children).node), Tail(children))

\* the same loop, folding the base (not yet accumulated) child values only
compute_accumulate_shallow(self) ==
    [i \in 1 .. Len(self) |->
        [node |-> accumulate_children(self[i].node, self[i].children),
         children |-> self[i].children]]

\* Forest::compute_accumulate
RECURSIVE compute_accumulate(_)
compute_accumulate(self) ==
    [i \in 1 .. Len(self) |->
        LET children == compute_accumulate(self[i].children)
        IN  [node |-> accumulate_children(self[i].node, children),
             children |-> children]]

\* slice::sort_by (stable): insert x behind every element it is not Less than
RECURSIVE sort_insert(_, _, _)
sort_insert(sorted, x, key) ==
    IF sorted = << >> THEN <<x>>
    ELSE IF node_cmp(x.node, Head(sorted).node, key) = "Less"
         THEN <<x>> \o sorted
         ELSE <<Head(sorted)>> \o sort_insert(Tail(sorted), x, key)

RECURSIVE sort_by_seq(_, _)
sort_by_seq(seq, key) ==
    IF seq = << >> THEN << >>
    ELSE sort_insert(sort_by_seq(SubSeq(seq, 1, Len(seq) - 1), key), seq[Len(seq)], key)

\* Forest::sort
RECURSIVE sort(_, _)
sort(self, key) ==
    LET s == sort_by_seq(self, key)
    IN  [i \in 1 .. Len(s) |->
            [node |-> s[i].node, children |-> sort(s[i].children, key)]]

\* the roots list taking in every record, with or without a parent
input_roots_lists_all(input) == [i \in 1 .. Len(input) |-> input[i].id]

\* the roots list taking in every record whose parent is not in the input
input_roots_adopts_orphans(input) ==
    LET r == SelectSeq(input, LAMBDA n :
                 \A j \in DOMAIN input : input[j].id # n.parent)
    IN  [i \in 1 .. Len(r) |-> r[i].id]

\* the first loop of new_forest: roots, children_map and node_map
input_roots(input) ==
    LET r == SelectSeq(input, LAMBDA n : n.parent = NoParent)
    IN  [i \in 1 .. Len(r) |-> r[i].id]

input_children_map(input) ==
    [p \in {input[i].parent : i \in DOMAIN input} \ {NoParent} |->
        LET c == SelectSeq(input, LAMBDA n : n.parent = p)
        IN  [i \in 1 .. Len(c) |-> c[i].id]]

input_node_map(input) ==
    [id \in {input[i].id : i \in DOMAIN input} |->
        LET last == CHOOSE i \in DOMAIN input :
                        /\ input[i].id = id
                        /\ \A j \in DOMAIN input : input[j].id = id => j <= i
        IN  input[last]]

\* new_forest with its two last steps exchanged: sort, then accumulate
new_forest_sorts_first(input, key) ==
    LET built == mk_forest(input_node_map(input), input_children_map(input),
                           input_roots(input))
    IN  compute_accumulate(sort(built.result, key))

\* Forest::new_forest: build, then accumulate, then sort
new_forest(input, key) ==
    LET built == mk_forest(input_node_map(input), input_children_map(input),
                           input_roots(input))
    IN  sort(compute_accumulate(built.result), key)

\* filter_helper without the else-if arm: a node above a match is not inserted
RECURSIVE filter_helper_no_ancestors(_, _, _, _)
filter_helper_no_ancestors(self, filter, parent_included, included) ==
    IF self = << >>
    THEN [any_child_included |-> FALSE, included |-> included]
    ELSE LET tree == Head(self)
             id == tree.node.id
             first == IF parent_included \/ id \in filter
                      THEN filter_helper_no_ancestors(tree.children, filter, TRUE,
                                                      included \cup {id})
                      ELSE filter_helper_no_ancestors(tree.children, filter, FALSE,
                                                      included)
             rest == filter_helper_no_ancestors(Tail(self), filter, parent_included,
                                                first.included)
         IN  [any_child_included |-> TRUE, included |-> rest.included]

\* filter_helper that hands any_child_included on to the next siblings as
\* parent_included
RECURSIVE filter_helper_flag_leaks(_, _, _, _)
filter_helper_flag_leaks(self, filter, parent_included, included) ==
    IF self = << >>
    THEN [any_child_included |-> FALSE, included |-> included]
    ELSE LET tree == Head(self)
             id == tree.node.id
             first == IF parent_included \/ id \in filter
                      THEN LET sub == filter_helper_flag_leaks(tree.children, filter,
                                                               TRUE, included \cup {id})
                           IN  [any_child_included |-> TRUE, included |-> sub.included]
                      ELSE LET sub == filter_helper_flag_leaks(tree.children, filter,
                                                               FALSE, included)
                           IN  IF sub.any_child_included
                               THEN [any_child_included |-> TRUE,
                                     included |-> sub.included \cup {id}]
                               ELSE [any_child_included |-> FALSE,
                                     included |-> sub.included]
             rest == filter_helper_flag_leaks(Tail(self), filter,
                         parent_included \/ first.any_child_included, first.included)
         IN  [any_child_included |-> first.any_child_included \/ rest.any_child_included,
              included |-> rest.included]

\* line 127 handing the caller's flag on to the children
below_included_as_parent(parent_included) == parent_included

\* line 127: the children of an included node are filtered with parent_included
\* = true
below_included(parent_included) == TRUE

\* Forest::filter_helper: included is the &mut HashSet, any_child_included the result
RECURSIVE filter_helper(_, _, _, _)
filter_helper(self, filter, parent_included, included) ==
    IF self = << >>
    THEN [any_child_included |-> FALSE, included |-> included]
    ELSE LET tree == Head(self)
             id == tree.node.id
             first == IF parent_included \/ id \in filter
                      THEN LET sub == filter_helper(tree.children, filter,
                                                    below_included(parent_included),
                                                    included \cup {id})
                           IN  [any_child_included |-> TRUE, included |-> sub.included]
                      ELSE LET sub == filter_helper(tree.children, filter, FALSE,
                                                    included)
                           IN  IF sub.any_child_included
                               THEN [any_child_included |-> TRUE,
                                     included |-> sub.included \cup {id}]
                               ELSE [any_child_included |-> FALSE,
                                     included |-> sub.included]
             rest == filter_helper(Tail(self), filter, parent_included, first.included)
         IN  [any_child_included |-> first.any_child_included \/ rest.any_child_included,
              included |-> rest.included]

\* Forest::filter starting with parent_included = true
filter_from_included(self, pred) == filter_helper(self, pred, TRUE, {}).included

\* Forest::filter: the set of included identifiers
filter(self, pred) == filter_helper(self, pred, FALSE, {}).included

\* lines 154-158 without the filter on included
included_children_unfiltered(self, included) == self

\* format_helper lines 154-158: the trees of this level whose node is included
included_children(self, included) ==
    SelectSeq(self, LAMBDA child : child.node.id \in included)

\* line 171 reporting no children
has_children_never(child) == FALSE

\* format_helper line 171: !child.children.0.is_empty()
has_children(child) == child.children # << >>

\* the drawing characters of format_helper, written in ASCII: U+2514 U+2500
\* (corner), U+251C U+2500 (tee), U+252C and a space (children follow),
\* U+2500 and a space (no children), U+2502 and a space (bar), two spaces
GlyphLast == "L-"

GlyphMiddle == "|-"

MarkerChildren == "+ "

MarkerLeaf == "- "

PrefixBar == "| "

PrefixBlank == "  "

\* line 177 pushing the bar below a last sibling as well
continuation_always_bar(is_last) == PrefixBar

\* format_helper line 177: the prefix pushed for the lines below a node
continuation(is_last) == IF is_last THEN PrefixBlank ELSE PrefixBar

\* Forest::format_helper: the (id, line) pairs pushed to acc; a line is the
\* sequence of its prefixes, glyph and child marker (table_data and the node's
\* Display text, which hold no tree drawing, are left to the id). format_rows
\* is the for loop from the i-th child on.
RECURSIVE format_helper(_, _, _, _)
RECURSIVE format_rows(_, _, _, _, _)
format_rows(children, i, included, is_root, prefixes) ==
    IF i > Len(children) THEN << >>
    ELSE LET child == children[i]
             is_last == i = Len(children)
             line == IF is_root THEN prefixes
                     ELSE prefixes \o <<IF is_last THEN GlyphLast ELSE GlyphMiddle,
                                        IF has_children(child) THEN MarkerChildren
                                        ELSE MarkerLeaf>>
             below == format_helper(child.children, included, FALSE,
                                    IF is_root THEN prefixes
                                    ELSE Append(prefixes, continuation(is_last)))
             rest == format_rows(children, i + 1, included, is_root, prefixes)
         IN  IF child.node.id \notin included THEN rest
             ELSE <<[id |-> child.node.id, line |-> line]>> \o below \o rest

format_helper(self, included, is_root, prefixes) ==
    format_rows(included_children(self, included), 1, included, is_root, prefixes)

\* Forest::format_processes
format_processes(self, pred) == format_helper(self, filter(self, pred), TRUE, << >>)

(* ------------------------------------------------------------------ *)
(* Reading a forest                                                    *)
(* ------------------------------------------------------------------ *)

\* all nodes of a forest, depth first
RECURSIVE forest_nodes(_)
forest_nodes(self) ==
    IF self = << >> THEN << >>
    ELSE <<Head(self).node>> \o forest_nodes(Head(self).children)
                             \o forest_nodes(Tail(self))

forest_ids(self) == {n.id : n \in Range(forest_nodes(self))}

\* how many nodes of the forest carry the identifier
id_count(self, id) ==
    Cardinality({i \in DOMAIN forest_nodes(self) : forest_nodes(self)[i].id = id})

\* the subtree rooted at the node with the identifier (empty forest if absent)
RECURSIVE find_tree(_, _)
find_tree(self, id) ==
    IF self = << >> THEN << >>
    ELSE IF Head(self).node.id = id THEN <<Head(self)>>
    ELSE LET below == find_tree(Head(self).children, id)
         IN  IF below # << >> THEN below ELSE find_tree(Tail(self), id)

\* identifiers strictly below the node
descendants(self, id) ==
    LET t == find_tree(self, id)
    IN  IF t = << >> THEN {} ELSE forest_ids(t[1].children)

\* identifiers strictly above the node
ancestors(self, id) == {a \in forest_ids(self) : id \in descendants(self, a)}

(* ------------------------------------------------------------------ *)
(* Pattern (regex.rs)                                                  *)
(* ------------------------------------------------------------------ *)

\* Texts are sequences of one-character strings. The regex crate is modelled
\* on the texts the session can hold: letters and digits are literals, "(" and
\* ")" group. A text compiles iff its parentheses balance; a compiled pattern
\* finds a match iff its literals, in order, occur as a substring.

RECURSIVE paren_depth(_, _)
paren_depth(text, depth) ==
    IF text = << >> THEN depth
    ELSE IF depth < 0 THEN depth
    ELSE paren_depth(Tail(text),
                     CASE Head(text) = "(" -> depth + 1
                       [] Head(text) = ")" -> depth - 1
                       [] OTHER -> depth)

\* regex::Regex::new(text).is_ok()
compiles(text) == paren_depth(text, 0) = 0

literals(text) == SelectSeq(text, LAMBDA c : c \notin {"(", ")"})

is_substring(needle, hay) ==
    \E i \in 0 .. Len(hay) - Len(needle) :
        \A j \in 1 .. Len(needle) : hay[i + j] = needle[j]

\* regex::Regex::is_match of a compiled pattern
regex_is_match(text, str) == is_substring(literals(text), str)

\* Regex::modify keeping no text in the Invalid variant
compile_drops_text(text) ==
    IF compiles(text) THEN [kind |-> "Regex", regex |-> text]
    ELSE [kind |-> "Invalid", regex |-> << >>]

\* Regex::modify's match on regex::Regex::new(&regex)
compile(text) ==
    IF compiles(text) THEN [kind |-> "Regex", regex |-> text]
    ELSE [kind |-> "Invalid", regex |-> text]

\* Regex::empty
empty_regex == [kind |-> "Regex", regex |-> << >>]

\* Regex::is_match with the Invalid variant matched like a compiled one
is_match_fail_open(self, str) == regex_is_match(self.regex, str)

\* Regex::is_match
is_match(self, str) ==
    IF self.kind = "Regex" THEN regex_is_match(self.regex, str) ELSE FALSE

\* Regex::as_str
as_str(self) == self.regex

\* Regex::modify with |pattern| pattern.push(key)
modify_push(self, key) == compile(Append(as_str(self), key))

\* Regex::modify with |pattern| { pattern.pop(); }
modify_pop(self) ==
    LET text == as_str(self)
    IN  compile(IF text = << >> THEN text ELSE SubSeq(text, 1, Len(text) - 1))

(* ------------------------------------------------------------------ *)
(* Session state machine (treetop_app.rs)                              *)
(* ------------------------------------------------------------------ *)

\* saturating_sub(20) / saturating_add(20) of PageUp / PageDown
PageStep == 20

\* the header rows Process::render_header reports
HeaderHeight == 2

\* UiMode
Normal == [tag |-> "Normal", pid |-> 0]
EditingPattern == [tag |-> "EditingPattern", pid |-> 0]
ProcessSelected(pid) == [tag |-> "ProcessSelected", pid |-> pid]

\* SortBy::next without the Ram column
next_skips_ram(self) ==
    CASE self = "Pid" -> "Cpu"
      [] self = "Cpu" -> "Pid"
      [] self = "Ram" -> "Pid"

\* SortBy::next
next(self) ==
    CASE self = "Pid" -> "Cpu"
      [] self = "Cpu" -> "Ram"
      [] self = "Ram" -> "Pid"

\* usize::saturating_sub
saturating_sub(a, b) == IF a >= b THEN a - b ELSE 0

min(a, b) == IF a <= b THEN a ELSE b

\* Option<usize> of ListState::selected: None, or Some(n) written n
None == -1

\* Option::unwrap_or
unwrap_or(option, default) == IF option = None THEN default ELSE option

\* Iterator::nth counted from one
nth_from_one(rows, n) == IF n >= 1 /\ n \in DOMAIN rows THEN <<rows[n]>> ELSE << >>

\* Iterator::nth: the element after n others, as a sequence of at most one
nth(rows, n) == IF n + 1 \in DOMAIN rows THEN <<rows[n + 1]>> ELSE << >>

\* Pid::to_string for the identifiers of the model
DigitChars == <<"1", "2", "3", "4", "5", "6", "7", "8", "9">>

to_string(pid) == <<DigitChars[pid]>>

\* Forest::sort_by(cmp) with cmp = Process::compare(a, b, sort_column)
sort_by(self, sort_column) == sort(self, sort_column)

\* Forest::filter(&mut self, predicate) of the session's forest: the nodes
\* outside the included set are removed
RECURSIVE retain_included(_, _)
retain_included(self, keep) ==
    LET kept == SelectSeq(self, LAMBDA t : t.node.id \in keep)
    IN  [i \in 1 .. Len(kept) |->
            [node |-> kept[i].node,
             children |-> retain_included(kept[i].children, keep)]]

\* Forest::iter: every node of the forest
iter(self) == forest_nodes(self)

\* Forest::render_forest_prefixes: one row per node, depth first
render_forest_prefixes(self) == forest_nodes(self)

\* ProcessWatcher::get_forest
get_forest(processes) == new_forest(processes, "Pid")

\* the closure of update_processes asking about the name only
pattern_predicate_name_only(pattern, forest) ==
    {n.id : n \in {m \in Range(forest_nodes(forest)) : is_match(pattern, m.name)}}

\* the closure update_processes hands to filter, as the set it holds for
pattern_predicate(pattern, forest) ==
    {n.id : n \in {m \in Range(forest_nodes(forest)) :
                      is_match(pattern, m.name) \/ is_match(pattern, to_string(m.id))}}

\* update_processes, lines 61-65 left out: the mode is kept whatever the forest
stale_mode_kept(ui_mode, forest) == ui_mode

\* update_processes, lines 61-65: a selection not found in the forest is dropped
stale_mode(ui_mode, forest) ==
    IF ui_mode.tag = "ProcessSelected"
       /\ ~ \E i \in DOMAIN iter(forest) : iter(forest)[i].id = ui_mode.pid
    THEN Normal
    ELSE ui_mode

\* update_processes without its lines 61-65
update_processes_unchecked(self) ==
    LET sorted == sort_by(get_forest(self.system), self.sort_column)
        forest == retain_included(sorted,
                      filter(sorted, pattern_predicate(self.pattern, sorted)))
    IN  [self EXCEPT !.forest = forest]

\* TreetopApp::update_processes
update_processes(self) ==
    LET sorted == sort_by(get_forest(self.system), self.sort_column)
        forest == retain_included(sorted,
                      filter(sorted, pattern_predicate(self.pattern, sorted)))
    IN  [self EXCEPT !.forest = forest,
                     !.ui_mode = stale_mode(self.ui_mode, forest)]

\* KeyEvent { code, modifiers }: code is a key name or "Char" with its character
Key(modifiers, code, ch) == [modifiers |-> modifiers, code |-> code, ch |-> ch]

\* the quit arm with UiMode::Normal required of Ctrl+C as well
is_quit_normal_only(event, ui_mode) ==
    /\ ui_mode = Normal
    /\ \/ event.modifiers = "CONTROL" /\ event.code = "Char" /\ event.ch = "c"
       \/ event.modifiers = "NONE" /\ event.code = "Char" /\ event.ch = "q"

\* the first arm of update's match: Ctrl+C in any mode, `q` in Normal
is_quit(event, ui_mode) ==
    \/ event.modifiers = "CONTROL" /\ event.code = "Char" /\ event.ch = "c"
    \/ event.modifiers = "NONE" /\ ui_mode = Normal
          /\ event.code = "Char" /\ event.ch = "q"

\* char::is_ascii on the characters of the model
is_ascii(ch) == ch # "é"

\* a key pressed without a modifier
unmodified(event, code) == event.modifiers = "NONE" /\ event.code = code

\* line 96 matching in no mode
enter_editing_arm_never(event, ui_mode) == FALSE

\* line 96: (KeyModifiers::NONE, UiMode::EditingPattern, KeyCode::Enter)
enter_editing_arm(event, ui_mode) ==
    unmodified(event, "Enter") /\ ui_mode = EditingPattern

\* line 111 read as an arm of the modes without a selection
slash_arm_unselected(event, ui_mode) ==
    unmodified(event, "Char") /\ event.ch = "/" /\ ui_mode.tag # "ProcessSelected"

\* line 111: (KeyModifiers::NONE, _, KeyCode::Char('/'))
slash_arm(event, ui_mode) == unmodified(event, "Char") /\ event.ch = "/"

\* lines 119-123 read without UiMode::ProcessSelected(_)
esc_arm_editing_only(event, ui_mode) ==
    unmodified(event, "Esc") /\ ui_mode.tag = "EditingPattern"

\* lines 119-123: (NONE, EditingPattern | ProcessSelected(_), KeyCode::Esc)
esc_arm(event, ui_mode) ==
    unmodified(event, "Esc") /\ ui_mode.tag \in {"EditingPattern", "ProcessSelected"}

\* line 126 read without UiMode::EditingPattern
char_arm_any_mode(event, ui_mode) ==
    unmodified(event, "Char") /\ is_ascii(event.ch)

\* line 126: (NONE, EditingPattern, KeyCode::Char(key)) if key.is_ascii()
char_arm(event, ui_mode) ==
    unmodified(event, "Char") /\ ui_mode = EditingPattern /\ is_ascii(event.ch)

\* the arms of update's match after the quit arm, tried in source order; kill_ok is
\* the outcome of nix::sys::signal::kill. err is the `?` leaving update.
update_arms(self, event, kill_ok) ==
    LET none == event.modifiers = "NONE"
        code == event.code
        selected == unwrap_or(self.list_state.selected, 0)
        select(n) == [self EXCEPT !.list_state.selected = n]
        ok(app) == [app |-> app, err |-> FALSE, signal |-> "none"]
    IN  IF none /\ code = "Up" THEN ok(select(saturating_sub(selected, 1)))
        ELSE IF none /\ code = "PageUp" THEN ok(select(saturating_sub(selected, PageStep)))
        ELSE IF none /\ code = "Down" THEN ok(select(selected + 1))
        ELSE IF none /\ code = "PageDown" THEN ok(select(selected + PageStep))
        ELSE IF enter_editing_arm(event, self.ui_mode) THEN
                ok([self EXCEPT !.ui_mode = Normal])
        ELSE IF none /\ code = "Enter" THEN
                LET process == IF self.list_state.selected = None THEN << >>
                               ELSE nth(render_forest_prefixes(self.forest),
                                        self.list_state.selected)
                IN  IF process # << >>
                    THEN ok([self EXCEPT !.ui_mode = ProcessSelected(process[1].id)])
                    ELSE ok(self)
        ELSE IF slash_arm(event, self.ui_mode) THEN
                ok([self EXCEPT !.ui_mode = EditingPattern])
        ELSE IF none /\ code = "Tab" THEN
                ok([self EXCEPT !.sort_column = next(self.sort_column)])
        ELSE IF esc_arm(event, self.ui_mode) THEN
                ok([self EXCEPT !.ui_mode = Normal])
        ELSE IF char_arm(event, self.ui_mode) THEN
                ok([self EXCEPT !.pattern = modify_push(self.pattern, event.ch)])
        ELSE IF none /\ code = "Backspace" /\ self.ui_mode = EditingPattern THEN
                ok([self EXCEPT !.pattern = modify_pop(self.pattern)])
        ELSE IF none /\ code = "Char" /\ event.ch = "t"
                  /\ self.ui_mode.tag = "ProcessSelected" THEN
                [app |-> self, err |-> ~kill_ok, signal |-> "SIGTERM"]
        ELSE IF none /\ code = "Char" /\ event.ch = "k"
                  /\ self.ui_mode.tag = "ProcessSelected" THEN
                [app |-> self, err |-> ~kill_ok, signal |-> "SIGKILL"]
        ELSE ok(self)

\* TreetopApp::update: Exit from the quit arm, Err from a failed kill, else the
\* arm's effect followed by update_processes and Continue
update(self, event, kill_ok) ==
    IF is_quit(event, self.ui_mode)
    THEN [app |-> self, result |-> "Exit", signal |-> "none"]
    ELSE LET arm == update_arms(self, event, kill_ok)
         IN  IF arm.err
             THEN [app |-> arm.app, result |-> "Err", signal |-> arm.signal]
             ELSE [app |-> update_processes(arm.app), result |-> "Continue",
                   signal |-> arm.signal]

\* tick leaving every selection behind
tick_resets_mode(self, processes) ==
    [update_processes([self EXCEPT !.system = processes]) EXCEPT
        !.ui_mode = IF @.tag = "ProcessSelected" THEN Normal ELSE @]

\* TreetopApp::tick: refresh has replaced the watcher's processes by now
tick(self, processes) == update_processes([self EXCEPT !.system = processes])

\* normalize_list_state capping the cursor at list.len()
normalize_caps_at_len(list_state, len, height) ==
    [selected |-> IF list_state.selected = None THEN None
                  ELSE min(list_state.selected, len),
     offset |-> min(list_state.offset, saturating_sub(len, height))]

\* normalize_list_state without its lines 251-253
normalize_offset_only(list_state, len, height) ==
    [selected |-> list_state.selected,
     offset |-> min(list_state.offset, saturating_sub(len, height))]

\* normalize_list_state without its lines 254-256
normalize_selected_only(list_state, len, height) ==
    [selected |-> IF list_state.selected = None THEN None
                  ELSE min(list_state.selected, saturating_sub(len, 1)),
     offset |-> list_state.offset]

\* normalize_list_state(list_state, list, rect) with len = list.len()
normalize_list_state(list_state, len, height) ==
    [selected |-> IF list_state.selected = None THEN None
                  ELSE min(list_state.selected, saturating_sub(len, 1)),
     offset |-> min(list_state.offset, saturating_sub(len, height))]

\* StatefulWidget::render of ratatui's List on list_state, rows one line high:
\* nothing on an empty area; an empty list leaves the state alone or, in the
\* releases that unselect, clears it; otherwise the offset is scrolled until
\* the selected row is inside the area
list_render(list_state, len, height, unselects) ==
    IF height = 0 THEN list_state
    ELSE IF len = 0
    THEN IF unselects THEN [selected |-> None, offset |-> 0] ELSE list_state
    ELSE LET selected == min(unwrap_or(list_state.selected, 0), len - 1)
             first == min(list_state.offset, len - 1)
             scrolled == IF selected >= first + height THEN selected - height + 1
                         ELSE IF selected < first THEN selected
                         ELSE first
         IN  [list_state EXCEPT !.offset = scrolled]

\* TreetopApp::render: the part that changes the session, normalize_list_state
\* over the rows and a list of list_height rows, then the List widget
render(self, list_height, unselects) ==
    LET len == Len(render_forest_prefixes(self.forest))
    IN  [self EXCEPT !.list_state =
            list_render(normalize_list_state(self.list_state, len, list_height),
                        len, list_height, unselects)]

(* ------------------------------------------------------------------ *)
(* State                                                               *)
(* ------------------------------------------------------------------ *)

VARIABLES
    stage,      \* position of the forest pipeline: "input", "built", "filtered"
    input,      \* the records handed to new_forest
    built,      \* the Forest returned by new_forest
    pred,       \* the filter predicate, as the set of identifiers it holds for
    included,   \* the HashSet returned by Forest::filter
    lines,      \* the Vec returned by Forest::format_processes
    system,     \* ProcessWatcher: the processes of the last refresh
    forest,     \* TreetopApp.forest
    pattern,    \* TreetopApp.pattern
    list_state, \* TreetopApp.list_state: selected row and scroll offset
    ui_mode,    \* TreetopApp.ui_mode
    sort_column,\* TreetopApp.sort_column
    pc,         \* position of run_ui / main_loop
    terminal,   \* the terminal: alternate screen entered, raw mode enabled
    hook_set,   \* the panic hook of run_ui is installed
    termination_signal_received, \* the flag of setup_signal_handlers
    outcome,    \* how run_ui ended: "none" while it runs, "Ok", "Err", "panic"
    last,       \* the last call main_loop made: operation, event, mode at entry,
                \* result of update, signal sent, height of the list area drawn
    since_signal, \* calls main_loop made while the flag was set: events or
                \* ticks, and redraws
    args        \* a call of normalize_list_state on its own: list length, area
                \* height, the state handed in, the state after one call and
                \* after a second one

fvars == <<stage, input, built, pred, included, lines, args>>

appvars == <<system, forest, pattern, list_state, ui_mode, sort_column>>

loopvars == <<pc, terminal, hook_set, termination_signal_received, outcome, last,
              since_signal>>

vars == <<stage, input, built, pred, included, lines,
          system, forest, pattern, list_state, ui_mode, sort_column,
          pc, terminal, hook_set, termination_signal_received, outcome, last,
          since_signal, args>>

(* ------------------------------------------------------------------ *)
(* Inputs of the forest pipeline                                       *)
(* ------------------------------------------------------------------ *)

\* base values: 2, 3, 8, 16, .. (every sum names its summands), or all equal
MetricKinds == {"distinct", "equal"}

BaseCpu(kind, id) ==
    IF kind = "distinct"
    THEN CASE id = 1 -> 2 [] id = 2 -> 3 [] OTHER -> 2 ^ id
    ELSE 1

BaseRam(kind, id) == IF kind = "distinct" THEN MaxId + 1 - id ELSE 0

\* one record per identifier, in ascending or descending order of identifier
InputOf(parents, kind, ascending) ==
    [i \in 1 .. MaxId |->
        LET id == IF ascending THEN i ELSE MaxId + 1 - i
        IN  MkNode(id, parents[id], <<"p">>, BaseCpu(kind, id), BaseRam(kind, id))]

Inputs ==
    {InputOf(parents, kind, asc) :
        parents \in [Ids -> {NoParent} \cup Ids \cup {AbsentId}],
        kind \in MetricKinds, asc \in BOOLEAN}

\* comparators of the Node implementations
SortKeys == {"Id", "Acc", "Pid", "Cpu", "Ram"}

\* the session before TreetopApp::new and run_ui
NoEvent == [modifiers |-> "NONE", code |-> "None", ch |-> ""]

\* nothing done since the signal, or no signal yet
NoneSince == [events |-> 0, redraws |-> 0]

\* one more event or tick handled with the flag already set (counted up to 2)
counted_event(since, flag) ==
    IF flag THEN [since EXCEPT !.events = min(@ + 1, 2)] ELSE since

\* one more redraw made with the flag already set (counted up to 2)
counted_redraw(since, flag) ==
    IF flag THEN [since EXCEPT !.redraws = min(@ + 1, 2)] ELSE since

NoCall == [op |-> "none", event |-> NoEvent, mode_before |-> Normal,
           result |-> "none", signal |-> "none", height |-> 0]

\* no call of normalize_list_state on its own
NoArgs == [stage |-> "none", len |-> 0, height |-> 0,
           before |-> [selected |-> 0, offset |-> 0],
           once |-> [selected |-> 0, offset |-> 0],
           twice |-> [selected |-> 0, offset |-> 0]]

SessionIdle ==
    /\ system = << >>
    /\ forest = EmptyForest
    /\ pattern = empty_regex
    /\ list_state = [selected |-> 0, offset |-> 0]
    /\ ui_mode = Normal
    /\ sort_column = "Pid"
    /\ pc = "idle"
    /\ terminal = [alternate_screen |-> FALSE, raw_mode |-> FALSE]
    /\ hook_set = FALSE
    /\ termination_signal_received = FALSE
    /\ outcome = "none"
    /\ last = NoCall
    /\ since_signal = NoneSince

ForestInit ==
    /\ stage = "input"
    /\ input \in Inputs
    /\ built = EmptyForest
    /\ pred = {}
    /\ included = {}
    /\ lines = << >>
    /\ args = NoArgs
    /\ SessionIdle

\* Forest::new_forest(input)
NewForest ==
    /\ stage = "input"
    /\ \E key \in SortKeys : built' = new_forest(input, key)
    /\ stage' = "built"
    /\ UNCHANGED <<input, pred, included, lines, args>>
    /\ UNCHANGED <<appvars, loopvars>>

\* Forest::filter(predicate)
Filter ==
    /\ stage = "built"
    /\ \E p \in SUBSET Ids :
          /\ pred' = p
          /\ included' = filter(built, p)
    /\ stage' = "filtered"
    /\ UNCHANGED <<input, built, lines, args>>
    /\ UNCHANGED <<appvars, loopvars>>

ForestNext == NewForest \/ Filter

SpecForest == ForestInit /\ [][ForestNext]_vars

(* ------------------------------------------------------------------ *)
(* Inputs of the renderer: well-formed trees, as in the tests of       *)
(* tree.rs                                                             *)
(* ------------------------------------------------------------------ *)

\* most records of a rendered input; their identifiers are 1..MaxNodes
MaxNodes == 4

\* n records in ascending order of identifier, each a root or the child of a
\* record with a smaller identifier
TreeInputOf(n, parents) ==
    [id \in 1 .. n |->
        MkNode(id, parents[id], <<"p">>, BaseCpu("distinct", id), MaxNodes + 1 - id)]

TreeInputs ==
    UNION {{TreeInputOf(n, parents) :
               parents \in {f \in [1 .. n -> 0 .. n] :
                               \A id \in 1 .. n : f[id] = NoParent \/ f[id] < id}} :
           n \in 0 .. MaxNodes}

FormatInit ==
    /\ stage = "input"
    /\ input \in TreeInputs
    /\ built = EmptyForest
    /\ pred = {}
    /\ included = {}
    /\ lines = << >>
    /\ args = NoArgs
    /\ SessionIdle

\* Forest::format_processes(predicate): filter, then format_helper
FormatProcesses ==
    /\ stage = "built"
    /\ \E p \in SUBSET (1 .. MaxNodes) :
          /\ pred' = p
          /\ included' = filter(built, p)
          /\ lines' = format_processes(built, p)
    /\ stage' = "formatted"
    /\ UNCHANGED <<input, built, args>>
    /\ UNCHANGED <<appvars, loopvars>>

FormatNext == NewForest \/ FormatProcesses

SpecFormat == FormatInit /\ [][FormatNext]_vars

(* ------------------------------------------------------------------ *)
(* The session: run_ui and main_loop (tui_app.rs) driving TreetopApp    *)
(* ------------------------------------------------------------------ *)

\* longest pattern text the operator types
MaxPatternLen == 1

\* tallest terminal area handed to render
MaxHeight == 4

\* the pipeline of SpecForest is not part of the session
PipelineIdle ==
    /\ stage = "idle"
    /\ input = << >>
    /\ built = EmptyForest
    /\ pred = {}
    /\ included = {}
    /\ lines = << >>
    /\ args = NoArgs

\* what sysinfo reports at a refresh: a few process lists. A record is
\* Process::fake-like: pid, name, parent, cpu, ram.
Snapshots ==
    { << >>,
      << MkNode(1, NoParent, <<"q", "t">>, 1, 2),
         MkNode(2, 1, <<"t">>, 2, 0),
         MkNode(3, NoParent, <<"k">>, 4, 1) >>,
      << MkNode(3, 1, <<"k">>, 0, 1),
         MkNode(1, NoParent, <<"q", "t">>, 1, 1) >>,
      << MkNode(2, 1, <<"t">>, 2, 0),
         MkNode(3, NoParent, <<"k">>, 1, 1) >> }

\* the pattern argument of the command line: absent, or a compiled text
InitialPatterns == {<< >>, <<"2">>}

\* characters typed without a modifier
TypedChars == {"q", "t", "k", "(", ")", "/", "é"}

\* key press events the terminal delivers
Events ==
    {Key("NONE", code, "") :
        code \in {"Up", "PageUp", "Down", "PageDown", "Enter", "Tab", "Esc",
                  "Backspace", "F1"}}
    \cup {Key("NONE", "Char", ch) : ch \in TypedChars}
    \cup {Key("CONTROL", "Char", "c"), Key("SHIFT", "Char", "A")}

\* area heights of the terminal; below HeaderHeight + 1 the subtraction of
\* render (area.height - header_height - 1, a u16) overflows
Heights == {HeaderHeight, MaxHeight}

Self ==
    [system |-> system, forest |-> forest, pattern |-> pattern,
     list_state |-> list_state, ui_mode |-> ui_mode, sort_column |-> sort_column]

\* the session's fields after a call
Becomes(app) ==
    /\ system' = app.system
    /\ forest' = app.forest
    /\ pattern' = app.pattern
    /\ list_state' = app.list_state
    /\ ui_mode' = app.ui_mode
    /\ sort_column' = app.sort_column

\* the session's fields once run_ui has ended and the TreetopApp is destroyed
Destroyed ==
    [system |-> << >>, forest |-> EmptyForest, pattern |-> empty_regex,
     list_state |-> [selected |-> 0, offset |-> 0], ui_mode |-> Normal,
     sort_column |-> "Pid"]

\* args.pattern of main: None (no sequence element) or Some(compiled text)
PatternArgs ==
    {IF text = << >> THEN << >> ELSE <<[kind |-> "Regex", regex |-> text]>> :
        text \in InitialPatterns}

\* TreetopApp::new with ListState::default() left as it is: no cursor
new_without_cursor(process_watcher, pattern_arg) ==
    [system |-> process_watcher, forest |-> EmptyForest,
     pattern |-> IF pattern_arg = << >> THEN empty_regex ELSE pattern_arg[1],
     list_state |-> [selected |-> None, offset |-> 0],
     ui_mode |-> Normal, sort_column |-> "Pid"]

\* TreetopApp::new(process_watcher, pattern)
new(process_watcher, pattern_arg) ==
    [system |-> process_watcher, forest |-> EmptyForest,
     pattern |-> IF pattern_arg = << >> THEN empty_regex ELSE pattern_arg[1],
     list_state |-> [selected |-> 0, offset |-> 0],
     ui_mode |-> Normal, sort_column |-> "Pid"]

\* main: TreetopApp::new(ProcessWatcher::new(System::new()), pattern), then run
Init ==
    /\ PipelineIdle
    /\ \E pattern_arg \in PatternArgs :
          LET app == new(<< >>, pattern_arg)
          IN  /\ system = app.system
              /\ forest = app.forest
              /\ pattern = app.pattern
              /\ list_state = app.list_state
              /\ ui_mode = app.ui_mode
              /\ sort_column = app.sort_column
    /\ pc = "run_ui"
    /\ terminal = [alternate_screen |-> FALSE, raw_mode |-> FALSE]
    /\ hook_set = FALSE
    /\ termination_signal_received = FALSE
    /\ outcome = "none"
    /\ last = NoCall
    /\ since_signal = NoneSince

\* reset_terminal: LeaveAlternateScreen?, then disable_raw_mode?
reset_terminal(term, leave_ok, disable_ok) ==
    IF ~leave_ok THEN [terminal |-> term, ok |-> FALSE]
    ELSE IF ~disable_ok
         THEN [terminal |-> [term EXCEPT !.alternate_screen = FALSE], ok |-> FALSE]
         ELSE [terminal |-> [alternate_screen |-> FALSE, raw_mode |-> FALSE],
               ok |-> TRUE]

\* run_ui line 48: setup_signal_handlers()?
SetupSignalHandlers ==
    /\ pc = "run_ui"
    /\ \/ pc' = "enter_screen" /\ outcome' = outcome
       \/ pc' = "done" /\ outcome' = "Err"
    /\ UNCHANGED <<fvars, appvars, terminal, hook_set,
                   termination_signal_received, last, since_signal>>

\* SIGTERM or SIGINT arrives: signal_hook sets the registered flag
Signal ==
    /\ pc \notin {"run_ui", "done"}
    /\ ~termination_signal_received
    /\ termination_signal_received' = TRUE
    /\ UNCHANGED <<fvars, appvars, pc, terminal, hook_set, outcome, last, since_signal>>

\* run_ui line 49: stdout().execute(EnterAlternateScreen)?
EnterAlternateScreen ==
    /\ pc = "enter_screen"
    /\ \/ /\ terminal' = [terminal EXCEPT !.alternate_screen = TRUE]
          /\ pc' = "enable_raw" /\ outcome' = outcome
       \/ /\ terminal' = terminal
          /\ pc' = "done" /\ outcome' = "Err"
    /\ UNCHANGED <<fvars, appvars, hook_set, termination_signal_received, last, since_signal>>

\* run_ui line 50: enable_raw_mode()?
EnableRawMode ==
    /\ pc = "enable_raw"
    /\ \/ /\ terminal' = [terminal EXCEPT !.raw_mode = TRUE]
          /\ pc' = "main_loop" /\ outcome' = outcome
       \/ /\ terminal' = terminal
          /\ pc' = "done" /\ outcome' = "Err"
    /\ UNCHANGED <<fvars, appvars, hook_set, termination_signal_received, last, since_signal>>

\* run_ui lines 51-55 and main_loop lines 74-77: the panic hook is set, the
\* Terminal is made and cleared (either may fail)
BeginMainLoop ==
    /\ pc = "main_loop"
    /\ hook_set' = TRUE
    /\ pc' \in {"first_tick", "reset_err"}
    /\ UNCHANGED <<fvars, appvars, terminal, termination_signal_received,
                   outcome, last, since_signal>>

\* main_loop line 78: app.tick()
FirstTick ==
    /\ pc = "first_tick"
    /\ \E processes \in Snapshots : Becomes(tick(Self, processes))
    /\ last' = [NoCall EXCEPT !.op = "tick", !.mode_before = ui_mode]
    /\ pc' = "first_redraw"
    /\ UNCHANGED <<fvars, terminal, hook_set, termination_signal_received, outcome>>
    /\ since_signal' = counted_event(since_signal, termination_signal_received)

\* redraw (main_loop lines 79 and 103): terminal.draw calls render
Redraw ==
    /\ pc \in {"first_redraw", "redraw"}
    /\ \E height \in Heights, unselects \in BOOLEAN :
          /\ height >= HeaderHeight + 1
          /\ Becomes(render(Self, height - HeaderHeight - 1, unselects))
          /\ last' = [NoCall EXCEPT !.op = "redraw",
                                    !.height = height - HeaderHeight - 1]
    /\ pc' = "loop_top"
    /\ UNCHANGED <<fvars, terminal, hook_set, termination_signal_received, outcome>>
    /\ since_signal' = counted_redraw(since_signal, termination_signal_received)

\* redraw on an area lower than the header and status bar, release build:
\* the u16 subtraction wraps and the list is as high as the wrapped value
RedrawWrapped ==
    /\ pc \in {"first_redraw", "redraw"}
    /\ \E height \in Heights, unselects \in BOOLEAN :
          /\ height < HeaderHeight + 1
          /\ Becomes(render(Self, height - HeaderHeight - 1 + 2 ^ 16, unselects))
          /\ last' = [NoCall EXCEPT !.op = "redraw",
                                    !.height = height - HeaderHeight - 1 + 2 ^ 16]
    /\ pc' = "loop_top"
    /\ UNCHANGED <<fvars, terminal, hook_set, termination_signal_received, outcome>>
    /\ since_signal' = counted_redraw(since_signal, termination_signal_received)

\* the same, debug build: the subtraction panics; the hook of run_ui line 51
\* calls reset_terminal and drops its result, the panic leaves run_ui
RedrawPanics ==
    /\ pc \in {"first_redraw", "redraw"}
    /\ \E height \in Heights : height < HeaderHeight + 1
    /\ \E leave_ok, disable_ok \in BOOLEAN :
          terminal' = reset_terminal(terminal, leave_ok, disable_ok).terminal
    /\ pc' = "done"
    /\ outcome' = "panic"
    /\ Becomes(Destroyed)
    /\ UNCHANGED <<fvars, hook_set, termination_signal_received, last, since_signal>>

\* terminal.draw fails
RedrawFails ==
    /\ pc \in {"first_redraw", "redraw"}
    /\ pc' = "reset_err"
    /\ UNCHANGED <<fvars, appvars, terminal, hook_set,
                   termination_signal_received, outcome, last, since_signal>>

\* lines 81-83 never breaking
flag_check_never(flag) == "poll"

\* main_loop lines 81-83: break when the flag is set, poll otherwise
flag_check(flag) == IF flag THEN "reset_ok" ELSE "poll"

\* main_loop lines 81-83: the flag is read once per iteration
CheckFlag ==
    /\ pc = "loop_top"
    /\ pc' = flag_check(termination_signal_received)
    /\ UNCHANGED <<fvars, appvars, terminal, hook_set,
                   termination_signal_received, outcome, last, since_signal>>

\* main_loop lines 84-98: a key press is polled, read and handed to update
HandleKey ==
    /\ pc = "poll"
    /\ \E event \in Events, kill_ok \in BOOLEAN :
          LET r == update(Self, event, kill_ok)
          IN  /\ Len(as_str(r.app.pattern)) <= MaxPatternLen
              /\ Becomes(r.app)
              /\ last' = [op |-> "update", event |-> event, mode_before |-> ui_mode,
                          result |-> r.result, signal |-> r.signal, height |-> 0]
              /\ pc' = CASE r.result = "Continue" -> "redraw"
                         [] r.result = "Exit" -> "reset_ok"
                         [] r.result = "Err" -> "reset_err"
    /\ UNCHANGED <<fvars, terminal, hook_set, termination_signal_received, outcome>>
    /\ since_signal' = counted_event(since_signal, termination_signal_received)

\* main_loop lines 90-98: an event that is no key press changes nothing
HandleOtherEvent ==
    /\ pc = "poll"
    /\ last' = [NoCall EXCEPT !.op = "other"]
    /\ pc' = "redraw"
    /\ UNCHANGED <<fvars, appvars, terminal, hook_set,
                   termination_signal_received, outcome>>
    /\ since_signal' = counted_event(since_signal, termination_signal_received)

\* main_loop lines 99-102: the poll timed out
Tick ==
    /\ pc = "poll"
    /\ \E processes \in Snapshots : Becomes(tick(Self, processes))
    /\ last' = [NoCall EXCEPT !.op = "tick", !.mode_before = ui_mode]
    /\ pc' = "redraw"
    /\ UNCHANGED <<fvars, terminal, hook_set, termination_signal_received, outcome>>
    /\ since_signal' = counted_event(since_signal, termination_signal_received)

\* event::poll or event::read fails
PollFails ==
    /\ pc = "poll"
    /\ pc' = "reset_err"
    /\ UNCHANGED <<fvars, appvars, terminal, hook_set,
                   termination_signal_received, outcome, last, since_signal>>

\* run_ui lines 55-64: main_loop has returned, the terminal is reset
ResetTerminal ==
    /\ pc \in {"reset_ok", "reset_err"}
    /\ \E leave_ok, disable_ok \in BOOLEAN :
          LET r == reset_terminal(terminal, leave_ok, disable_ok)
          IN  /\ terminal' = r.terminal
              /\ outcome' = IF pc = "reset_ok" /\ r.ok THEN "Ok" ELSE "Err"
    /\ pc' = "done"
    /\ Becomes(Destroyed)
    /\ UNCHANGED <<fvars, hook_set, termination_signal_received, last, since_signal>>

Next ==
    \/ SetupSignalHandlers
    \/ Signal
    \/ EnterAlternateScreen
    \/ EnableRawMode
    \/ BeginMainLoop
    \/ FirstTick
    \/ Redraw
    \/ RedrawWrapped
    \/ RedrawPanics
    \/ RedrawFails
    \/ CheckFlag
    \/ HandleKey
    \/ HandleOtherEvent
    \/ Tick
    \/ PollFails
    \/ ResetTerminal

Spec == Init /\ [][Next]_vars

\* run_ui is one thread that never waits for longer than the poll timeout:
\* while a step of it is possible, one is taken. Which way a poll ends (an
\* event is ready, or the timeout has passed) is up to the terminal.
SpecLive == Init /\ [][Next]_vars /\ WF_vars(Next)

(* ------------------------------------------------------------------ *)
(* normalize_list_state called on its own, as its tests call it        *)
(* ------------------------------------------------------------------ *)

\* longest list and highest area handed to normalize_list_state
MaxLen == 3

\* ListState::default().with_selected(..).with_offset(..)
ListStates ==
    [selected : {None} \cup (0 .. MaxLen + 1), offset : 0 .. MaxLen + 1]

NormalizeInit ==
    /\ stage = "idle"
    /\ input = << >>
    /\ built = EmptyForest
    /\ pred = {}
    /\ included = {}
    /\ lines = << >>
    /\ SessionIdle
    /\ \E ls \in ListStates, len \in 0 .. MaxLen, height \in 0 .. MaxLen :
          args = [stage |-> "input", len |-> len, height |-> height,
                  before |-> ls, once |-> ls, twice |-> ls]

\* normalize_list_state(&mut list_state, &list, &rect)
Normalize ==
    /\ args.stage = "input"
    /\ args' = [args EXCEPT !.stage = "once",
                            !.once = normalize_list_state(args.before, args.len,
                                                          args.height),
                            !.twice = normalize_list_state(args.before, args.len,
                                                           args.height)]
    /\ UNCHANGED <<stage, input, built, pred, included, lines, appvars, loopvars>>

\* the same call again on the state the first call left
NormalizeAgain ==
    /\ args.stage = "once"
    /\ args' = [args EXCEPT !.stage = "twice",
                            !.twice = normalize_list_state(args.once, args.len,
                                                           args.height)]
    /\ UNCHANGED <<stage, input, built, pred, included, lines, appvars, loopvars>>

NormalizeNext == Normalize \/ NormalizeAgain

SpecNormalize == NormalizeInit /\ [][NormalizeNext]_vars

(* ------------------------------------------------------------------ *)
(* Process::compare on its own (process.rs)                            *)
(* ------------------------------------------------------------------ *)

\* largest cpu and ram value of a compared process
MaxMetric == 2

\* the fields of Process that compare reads; cpu is an f32 and may be NaN
Processes ==
    {MkNode(id, NoParent, <<"p">>, cpu, ram) :
        id \in Ids, cpu \in {NaN} \cup (0 .. MaxMetric), ram \in 0 .. MaxMetric}

\* SortBy
SortBys == {"Pid", "Cpu", "Ram"}

CompareInit ==
    /\ stage = "idle"
    /\ input = << >>
    /\ built = EmptyForest
    /\ pred = {}
    /\ included = {}
    /\ lines = << >>
    /\ SessionIdle
    /\ \E self \in Processes, other \in Processes, by \in SortBys :
          args = [stage |-> "processes", self |-> self, other |-> other,
                  by |-> by, ordering |-> "Equal", reversed |-> "Equal"]

\* self.compare(other, sort_by)
Compare ==
    /\ args.stage = "processes"
    /\ args' = [args EXCEPT !.stage = "compared",
                            !.ordering = compare(args.self, args.other, args.by)]
    /\ UNCHANGED <<stage, input, built, pred, included, lines, appvars, loopvars>>

\* other.compare(self, sort_by)
CompareReversed ==
    /\ args.stage = "compared"
    /\ args' = [args EXCEPT !.stage = "both",
                            !.reversed = compare(args.other, args.self, args.by)]
    /\ UNCHANGED <<stage, input, built, pred, included, lines, appvars, loopvars>>

CompareNext == Compare \/ CompareReversed

SpecCompare == CompareInit /\ [][CompareNext]_vars

(* ------------------------------------------------------------------ *)
(* Claims about the forest pipeline (SpecForest)                       *)
(* ------------------------------------------------------------------ *)

\* the record of the input with the identifier
input_record(id) == input[CHOOSE i \in DOMAIN input : input[i].id = id]

input_ids == {input[i].id : i \in DOMAIN input}

\* direct children of the node in the built forest
children_ids(self, id) ==
    LET t == find_tree(self, id)
    IN  IF t = << >> THEN {} ELSE {t[1].children[i].node.id : i \in DOMAIN t[1].children}

\* C1 (as stated): for any input with unique identifiers, every identifier of
\* the input is carried by exactly one node of the forest new_forest returns.
C1_EveryIdExactlyOnce ==
    stage # "input" => \A id \in input_ids : id_count(built, id) = 1

\* C2: after new_forest every node's accumulated cpu and ram equal its own base
\* value plus the sum of the base values of all its descendants.
C2_Accumulated ==
    stage # "input" =>
        \A n \in Range(forest_nodes(built)) :
            LET below == descendants(built, n.id)
            IN  /\ n.cpu = input_record(n.id).cpu
                           + SumSet(below, [d \in below |-> input_record(d).cpu])
                /\ n.ram = input_record(n.id).ram
                           + SumSet(below, [d \in below |-> input_record(d).ram])

\* C2 witness: the chain 2 <- 3 <- 8 has been built and carries 13, 11, 8.
C2_Witness ==
    /\ stage = "built"
    /\ Len(built) = 1
    /\ built[1].node.id = 1 /\ built[1].node.cpu = 13
    /\ Len(built[1].children) = 1
    /\ built[1].children[1].node.id = 2 /\ built[1].children[1].node.cpu = 11
    /\ Len(built[1].children[1].children) >= 1
    /\ built[1].children[1].children[1].node.id = 3
    /\ built[1].children[1].children[1].node.cpu = 8

\* C3: filter soundness: a node of the forest for which the predicate holds is
\* included together with every descendant and every ancestor.
C3_FilterSound ==
    stage = "filtered" =>
        \A n \in forest_ids(built) \cap pred :
            /\ n \in included
            /\ descendants(built, n) \subseteq included
            /\ ancestors(built, n) \subseteq included

\* C3 witness: a matching node with an ancestor and a descendant, neither
\* matching, has been filtered.
C3_Witness ==
    /\ stage = "filtered"
    /\ \E n \in forest_ids(built) \cap pred :
          /\ ancestors(built, n) # {} /\ ancestors(built, n) \cap pred = {}
          /\ descendants(built, n) # {} /\ descendants(built, n) \cap pred = {}

\* C4: filter exactness: a node is included if and only if the predicate holds
\* for it, for one of its ancestors or for one of its descendants.
C4_FilterExact ==
    stage = "filtered" =>
        included = {n \in forest_ids(built) :
                       \/ n \in pred
                       \/ ancestors(built, n) \cap pred # {}
                       \/ descendants(built, n) \cap pred # {}}

\* C4 witness: under an included ancestor that does not match, one child
\* subtree holds a match and a sibling subtree without a match stays out.
C4_Witness ==
    /\ stage = "filtered"
    /\ \E a \in included \ pred :
          \E c, d \in children_ids(built, a) :
              /\ c \in included
              /\ d \notin included
              /\ ancestors(built, a) \cap pred = {}

(* ------------------------------------------------------------------ *)
(* Claims about the session (Spec)                                     *)
(* ------------------------------------------------------------------ *)

\* a tick or a key update has just returned to main_loop
AfterTick == pc \in {"first_redraw", "redraw"} /\ last.op = "tick"

AfterUpdate == pc \in {"redraw", "reset_ok", "reset_err"} /\ last.op = "update"

CtrlC == Key("CONTROL", "Char", "c")

\* C5: a tick entered in ProcessSelected(id) with id missing from the rebuilt
\* forest leaves the mode Normal.
C5_StaleSelection ==
    (/\ AfterTick
     /\ last.mode_before.tag = "ProcessSelected"
     /\ last.mode_before.pid \notin forest_ids(forest))
    => ui_mode = Normal

\* C5 witness: a tick has found the selected process gone and reset the mode.
C5_Witness ==
    /\ AfterTick
    /\ last.mode_before.tag = "ProcessSelected"
    /\ last.mode_before.pid \notin forest_ids(forest)
    /\ ui_mode = Normal

\* C6: in every state between the calls of main_loop (after every key update
\* and every tick) a ProcessSelected(id) names a node of the session's forest.
C6_SelectionInForest ==
    ui_mode.tag = "ProcessSelected" => ui_mode.pid \in forest_ids(forest)

\* C6 witness: a selection made with Enter has lived through a tick that
\* brought another process list.
C6_Witness ==
    /\ AfterTick
    /\ last.mode_before.tag = "ProcessSelected"
    /\ ui_mode = last.mode_before
    /\ Len(system) = 2

\* C7 (as stated): when `t` or `k` is pressed in ProcessSelected(id) and the
\* signal sender fails, the loop keeps running and the mode stays
\* ProcessSelected(id).
C7_KillFailureKeepsLoop ==
    (/\ last.op = "update"
     /\ last.signal \in {"SIGTERM", "SIGKILL"}
     /\ last.result = "Err")
    => /\ pc \in {"redraw", "loop_top", "poll"}
       /\ ui_mode = last.mode_before

\* C8 (as stated): whenever run_ui has ended, the terminal has left the
\* alternate screen and raw mode is disabled.
C8_TerminalRestored ==
    pc = "done" => ~terminal.alternate_screen /\ ~terminal.raw_mode

\* C9 (as stated): `q` and Ctrl+C make update return Exit and end the loop in
\* every mode.
C9_QuitInEveryMode ==
    (/\ last.op = "update"
     /\ last.event \in {CtrlC, Key("NONE", "Char", "q")})
    => last.result = "Exit" /\ pc \in {"reset_ok", "done"}

\* C9 (amended): Ctrl+C in every mode, and `q` in Normal mode only, make
\* update return Exit, and then the loop ends without another call; `q` in
\* EditingPattern or ProcessSelected returns Continue.
C9_Quit ==
    last.op = "update" =>
        /\ (\/ last.event = CtrlC
            \/ last.event = Key("NONE", "Char", "q") /\ last.mode_before = Normal)
           => last.result = "Exit" /\ pc \in {"reset_ok", "done"}
        /\ (last.event = Key("NONE", "Char", "q") /\ last.mode_before # Normal)
           => last.result = "Continue"

\* C9 witness: Ctrl+C pressed while a process is selected has ended the loop.
C9_Witness ==
    /\ pc = "reset_ok"
    /\ last.op = "update"
    /\ last.event = CtrlC
    /\ last.mode_before.tag = "ProcessSelected"
    /\ last.result = "Exit"

\* C10 (as stated): in EditingPattern every printable character key appends
\* exactly that character to the pattern text and leaves the mode
\* EditingPattern.
C10_TypingAppends ==
    [][(/\ pc = "poll"
        /\ last'.op = "update"
        /\ ui_mode = EditingPattern
        /\ last'.event.code = "Char"
        /\ last'.event.modifiers \in {"NONE", "SHIFT"})
       => /\ as_str(pattern') = Append(as_str(pattern), last'.event.ch)
          /\ ui_mode' = EditingPattern]_vars

\* String::pop on a plain string
pop(text) == IF text = << >> THEN text ELSE SubSeq(text, 1, Len(text) - 1)

\* the key is one the EditingPattern mode appends: an ASCII character other
\* than `/`, pressed without a modifier
IsAppend(event) ==
    /\ event.modifiers = "NONE" /\ event.code = "Char"
    /\ is_ascii(event.ch) /\ event.ch # "/"

IsBackspace(event) == event = Key("NONE", "Backspace", "")

MatchChars == {"q", "t", "k", "(", ")", "1", "2", "3"}

\* the strings is_match is asked about: up to two characters
MatchInputs ==
    {<< >>} \cup {<<a>> : a \in MatchChars}
            \cup {<<a, b>> : a \in MatchChars, b \in MatchChars}

\* C12: is_match of a pattern in the Invalid state is false for every string;
\* with such a pattern the session's forest holds no row.
C12_FailClosed ==
    pattern.kind = "Invalid" =>
        /\ \A str \in MatchInputs : ~is_match(pattern, str)
        /\ forest = EmptyForest

\* C12 witness: the pattern is Invalid while a process is running whose name
\* the literal part of the text is found in.
C12_Witness ==
    /\ pattern.kind = "Invalid"
    /\ \E i \in DOMAIN system : regex_is_match(pattern.regex, system[i].name)
    /\ forest = EmptyForest

Max(a, b) == IF a >= b THEN a ELSE b

\* length of the visible list: the rows render draws
VisibleLen(self) == Len(render_forest_prefixes(self))

CursorCodes == {"Up", "PageUp", "Down", "PageDown"}

CursorKey(event) == event.modifiers = "NONE" /\ event.code \in CursorCodes

\* where a cursor key moves a cursor at row c
Moved(c, code) ==
    CASE code = "Up" -> Max(c - 1, 0)
      [] code = "PageUp" -> Max(c - PageStep, 0)
      [] code = "Down" -> c + 1
      [] code = "PageDown" -> c + PageStep

\* C13 (as stated): after a cursor key (Up, Down, PageUp, PageDown, in any
\* mode) the selection cursor is not below 0 and not above the visible list's
\* length - 1.
C13_CursorInList ==
    (/\ pc = "redraw"
     /\ last.op = "update"
     /\ CursorKey(last.event))
    => /\ list_state.selected >= 0
       /\ list_state.selected <= VisibleLen(forest) - 1

\* C13 (amended): a cursor key moves the cursor by 1 or 20 rows, saturating at
\* 0 on the way up and not capped at the list's end by update; the redraw that
\* follows the key caps it, so that when the next event is read the cursor is
\* at most max(visible length - 1, 0), or unset on an empty list.
C13_CursorCapped ==
    [][/\ (/\ pc = "poll"
           /\ last'.op = "update"
           /\ CursorKey(last'.event))
          => /\ list_state'.selected
                  = Moved(unwrap_or(list_state.selected, 0), last'.event.code)
             /\ list_state'.selected >= 0
       /\ (/\ pc = "redraw"
           /\ last.op = "update"
           /\ CursorKey(last.event)
           /\ pc' = "loop_top")
          => \/ list_state'.selected = None /\ VisibleLen(forest') = 0
             \/ /\ list_state'.selected >= 0
                /\ list_state'.selected <= Max(VisibleLen(forest') - 1, 0)]_vars

\* C13 witness: Down has been pressed on the last row of a list of two or more
\* rows; the cursor is one past the end and the redraw is still to come.
C13_Witness ==
    /\ pc = "redraw"
    /\ last.op = "update"
    /\ last.event = Key("NONE", "Down", "")
    /\ VisibleLen(forest) >= 2
    /\ list_state.selected = VisibleLen(forest)

C15_Normalize ==
    args.stage \in {"once", "twice"} =>
        LET last_row == Max(args.len - 1, 0)
            room == Max(args.len - args.height, 0)
            before == args.before
            after == args.once
        IN  /\ before.selected # None
                  => after.selected = IF before.selected <= last_row
                                      THEN before.selected ELSE last_row
            /\ before.selected = None => after.selected = None
            /\ after.offset = IF before.offset <= room THEN before.offset ELSE room
            /\ (before.selected <= last_row /\ before.offset <= room)
                  => after = before
            /\ (before.selected >= args.len /\ args.len >= 1)
                  => after.selected = args.len - 1
            /\ args.len <= args.height => after.offset = 0
            /\ args.stage = "twice" => args.twice = after

\* C15 witness: a cursor past the end and an offset past the room left, on a
\* list longer than the area, have been normalized twice.
C15_Witness ==
    /\ args.stage = "twice"
    /\ args.len > args.height /\ args.height >= 1
    /\ args.before.selected > args.len - 1
    /\ args.before.offset > args.len - args.height
    /\ args.once = [selected |-> args.len - 1, offset |-> args.len - args.height]
    /\ args.twice = args.once

(* ------------------------------------------------------------------ *)
(* Claims about the keys of the session (Spec)                         *)
(* ------------------------------------------------------------------ *)

\* main_loop hands the key to update in this step
Pressed(event) == pc = "poll" /\ last'.op = "update" /\ last'.event = event

EnterKey == Key("NONE", "Enter", "")

EscKey == Key("NONE", "Esc", "")

SlashKey == Key("NONE", "Char", "/")

TabKey == Key("NONE", "Tab", "")

\* C16: Enter pressed in EditingPattern sets the mode to Normal, leaves the
\* pattern as it is and selects no process.
C16_EnterCommits ==
    [][(Pressed(EnterKey) /\ ui_mode = EditingPattern)
       => /\ ui_mode' = Normal
          /\ pattern' = pattern
          /\ last'.result = "Continue"]_vars

\* C16 witness: Enter has ended the editing of a non-empty pattern while the
\* cursor was on a row; no process is selected.
C16_Witness ==
    /\ pc = "redraw"
    /\ last.op = "update"
    /\ last.event = EnterKey
    /\ last.mode_before = EditingPattern
    /\ ui_mode = Normal
    /\ as_str(pattern) # << >>
    /\ list_state.selected # None
    /\ list_state.selected < VisibleLen(forest)

\* C17: Enter pressed in Normal or ProcessSelected sets the mode to
\* ProcessSelected(id), id being the identifier of the row under the cursor
\* in the visible list (the session's forest, depth first); with the cursor
\* on no row the mode stays as it is.
C17_EnterSelects ==
    [][(Pressed(EnterKey) /\ ui_mode.tag \in {"Normal", "ProcessSelected"})
       => LET rows == forest_nodes(forest)
              cursor == list_state.selected
          IN  /\ forest_nodes(forest') = rows
              /\ IF cursor # None /\ cursor < Len(rows)
                 THEN ui_mode' = ProcessSelected(rows[cursor + 1].id)
                 ELSE ui_mode' = ui_mode
              /\ last'.result = "Continue"]_vars

\* C17 witness: with a process selected, Enter on a later row has selected
\* the process of that row.
C17_Witness ==
    /\ pc = "redraw"
    /\ last.op = "update"
    /\ last.event = EnterKey
    /\ last.mode_before.tag = "ProcessSelected"
    /\ ui_mode.tag = "ProcessSelected"
    /\ ui_mode.pid # last.mode_before.pid
    /\ list_state.selected >= 1
    /\ forest_nodes(forest)[list_state.selected + 1].id = ui_mode.pid

\* C18: Esc pressed in EditingPattern or ProcessSelected sets the mode to
\* Normal, Esc in Normal leaves it Normal; the pattern is unchanged.
C18_EscToNormal ==
    [][Pressed(EscKey)
       => /\ ui_mode' = Normal
          /\ pattern' = pattern
          /\ last'.result = "Continue"]_vars

\* C18 witness: Esc has dropped a selection made under a non-empty pattern.
C18_Witness ==
    /\ pc = "redraw"
    /\ last.op = "update"
    /\ last.event = EscKey
    /\ last.mode_before.tag = "ProcessSelected"
    /\ ui_mode = Normal
    /\ as_str(pattern) # << >>

\* C19: `/` sets the mode to EditingPattern from every mode: from Normal,
\* from ProcessSelected(id), whose selection is dropped, and from
\* EditingPattern.
C19_SlashEdits ==
    [][Pressed(SlashKey)
       => /\ ui_mode' = EditingPattern
          /\ last'.result = "Continue"]_vars

\* C19 witness: `/` has been pressed while a process was selected.
C19_Witness ==
    /\ pc = "redraw"
    /\ last.op = "update"
    /\ last.event = SlashKey
    /\ last.mode_before.tag = "ProcessSelected"
    /\ ui_mode = EditingPattern

\* every list of siblings of the forest, the roots included
RECURSIVE sibling_lists(_)
sibling_lists(self) ==
    {self} \cup UNION {sibling_lists(self[i].children) : i \in DOMAIN self}

\* a stands before b under the key: identifier ascending, cpu or ram
\* descending with equal values in ascending order of identifier
Before(a, b, key) ==
    CASE key = "Pid" -> a.id < b.id
      [] key = "Cpu" -> a.cpu > b.cpu \/ (a.cpu = b.cpu /\ a.id < b.id)
      [] key = "Ram" -> a.ram > b.ram \/ (a.ram = b.ram /\ a.id < b.id)

SortedBy(self, key) ==
    \A l \in sibling_lists(self) :
        \A i, j \in DOMAIN l : i < j => Before(l[i].node, l[j].node, key)

\* C20: Tab moves the sort key from identifier to cpu, from cpu to memory and
\* from memory to identifier, in every mode and without changing the mode;
\* three Tabs lead back to the key they started from; when update returns the
\* forest holds the same processes sorted by the new key.
C20_TabRotates ==
    [][Pressed(TabKey)
       => /\ sort_column' = CASE sort_column = "Pid" -> "Cpu"
                              [] sort_column = "Cpu" -> "Ram"
                              [] sort_column = "Ram" -> "Pid"
          /\ next(next(next(sort_column))) = sort_column
          /\ ui_mode' = ui_mode
          /\ forest_ids(forest') = forest_ids(forest)
          /\ SortedBy(forest', sort_column')
          /\ last'.result = "Continue"]_vars

\* C20 witness: Tab pressed with a process selected has brought the roots
\* into descending order of cpu, which is not their order of identifier.
C20_Witness ==
    /\ pc = "redraw"
    /\ last.op = "update"
    /\ last.event = TabKey
    /\ last.mode_before.tag = "ProcessSelected"
    /\ ui_mode = last.mode_before
    /\ sort_column = "Cpu"
    /\ Len(forest) = 2
    /\ forest[1].node.id > forest[2].node.id
    /\ forest[1].node.cpu > forest[2].node.cpu

(* ------------------------------------------------------------------ *)
(* C21  Process::compare                                               *)
(* ------------------------------------------------------------------ *)

\* the Ordering of the opposite comparison
Reverse(ordering) ==
    CASE ordering = "Less" -> "Greater"
      [] ordering = "Greater" -> "Less"
      [] OTHER -> "Equal"

\* the value compare reads from a process under a sort key
KeyOf(process, by) ==
    CASE by = "Pid" -> process.id
      [] by = "Cpu" -> process.cpu
      [] by = "Ram" -> process.ram

\* C21: compare puts the smaller identifier first under Pid and the larger cpu
\* or memory first under Cpu or Ram; when the two keys are equal it answers as
\* the identifiers compare; so it answers Equal only for two processes with
\* the same identifier, and the opposite comparison gives the opposite answer.
C21_Compare ==
    LET a == args.self
        b == args.other
        ka == KeyOf(a, args.by)
        kb == KeyOf(b, args.by)
    IN  /\ args.stage \in {"compared", "both"} =>
              /\ (args.by = "Pid" /\ ka < kb) => args.ordering = "Less"
              /\ (args.by = "Pid" /\ ka > kb) => args.ordering = "Greater"
              /\ (args.by # "Pid" /\ NaN \notin {ka, kb} /\ ka > kb)
                    => args.ordering = "Less"
              /\ (args.by # "Pid" /\ NaN \notin {ka, kb} /\ ka < kb)
                    => args.ordering = "Greater"
              /\ ka = kb => args.ordering = int_cmp(a.id, b.id)
              /\ args.ordering = "Equal" => a.id = b.id
        /\ args.stage = "both" => args.reversed = Reverse(args.ordering)

\* two different processes with the same cpu, compared by Cpu in both directions
C21_Witness ==
    /\ args.stage = "both"
    /\ args.by = "Cpu"
    /\ args.self.cpu = args.other.cpu
    /\ args.self.cpu # NaN
    /\ args.self.id > args.other.id
    /\ args.ordering = "Greater"
    /\ args.reversed = "Less"

(* ------------------------------------------------------------------ *)
(* C22  Sort determinism                                               *)
(* ------------------------------------------------------------------ *)

\* the comparators that break ties by ascending identifier
TotalKeys == {"Id", "Pid", "Cpu", "Ram"}

\* the same records in every order
Reorderings(records) ==
    {[i \in DOMAIN records |-> records[p[i]]] : p \in Permutations(DOMAIN records)}

unsorted(records) ==
    compute_accumulate(mk_forest(input_node_map(records), input_children_map(records),
                                 input_roots(records)).result)

\* C23: in the sorted forest the roots and every child list stand in the
\* order of the comparator applied to the accumulated values of the nodes, and
\* every node has the children it had before sorting: the same roots, and
\* under every node the same set of children with the same accumulated values.
C23_SortAfterAccumulate ==
    stage = "built" =>
        \A key \in SortKeys :
            built = new_forest(input, key) =>
                /\ \A l \in sibling_lists(built) :
                      \A i, j \in DOMAIN l :
                          i < j => node_cmp(l[i].node, l[j].node, key) # "Greater"
                /\ Range(forest_nodes(built)) = Range(forest_nodes(unsorted(input)))
                /\ {built[i].node.id : i \in DOMAIN built}
                     = {unsorted(input)[i].node.id : i \in DOMAIN unsorted(input)}
                /\ \A id \in forest_ids(built) :
                      children_ids(built, id) = children_ids(unsorted(input), id)

\* root 1 (cpu 2) with child 3 (cpu 8) stands before root 2 (cpu 3) under the
\* descending cpu order: 10 against 3 accumulated, 2 against 3 by base value
C23_Witness ==
    /\ stage = "built"
    /\ Len(built) = 2
    /\ built[1].node.id = 1 /\ built[1].node.cpu = 10 /\ input_record(1).cpu = 2
    /\ built[2].node.id = 2 /\ built[2].node.cpu = 3
    /\ children_ids(built, 1) = {3}

(* ------------------------------------------------------------------ *)
(* C24  Filter idempotence                                             *)
(* ------------------------------------------------------------------ *)

\* the render of a forest with no filter at all: every node, in the order of
\* the forest, glyphs chosen from the forest's own sibling lists
RECURSIVE unfiltered_rows(_, _, _, _)
unfiltered_rows(self, i, is_root, prefixes) ==
    IF i > Len(self) THEN << >>
    ELSE LET tree == self[i]
             is_last == i = Len(self)
             line == IF is_root THEN << >>
                     ELSE prefixes \o <<IF is_last THEN GlyphLast ELSE GlyphMiddle,
                                        IF tree.children = << >> THEN MarkerLeaf
                                        ELSE MarkerChildren>>
             deeper == IF is_root THEN << >>
                       ELSE Append(prefixes, IF is_last THEN PrefixBlank ELSE PrefixBar)
         IN  <<[id |-> tree.node.id, line |-> line]>>
             \o unfiltered_rows(tree.children, 1, FALSE, deeper)
             \o unfiltered_rows(self, i + 1, is_root, prefixes)

\* C24: under a predicate that is true of every node, the filter includes
\* every node of the forest and the render is the render of the unfiltered,
\* accumulated, sorted forest: one line per node, same order, same glyphs.
C24_FilterIdempotence ==
    (stage = "formatted" /\ forest_ids(built) \subseteq pred) =>
        /\ included = forest_ids(built)
        /\ Len(lines) = Len(forest_nodes(built))
        /\ lines = unfiltered_rows(built, 1, TRUE, << >>)

\* a forest of MaxNodes nodes with a grandchild, rendered under the
\* always-true predicate: some line carries the children marker
C24_Witness ==
    /\ stage = "formatted"
    /\ forest_ids(built) \subseteq pred
    /\ Len(lines) = MaxNodes
    /\ \E i \in DOMAIN lines : \E k \in DOMAIN lines[i].line :
          lines[i].line[k] = MarkerChildren
    /\ \E i \in DOMAIN lines : Len(lines[i].line) = 3

(* ------------------------------------------------------------------ *)
(* C25  Empty filter                                                   *)
(* ------------------------------------------------------------------ *)

\* C25: when the predicate is true of no node of the forest, the filter
\* includes no node and the render has no line.
C25_EmptyFilter ==
    (stage = "formatted" /\ pred \cap forest_ids(built) = {}) =>
        /\ included = {}
        /\ lines = << >>

\* a forest with a root, a child and a grandchild, rendered under a predicate
\* that is true of an identifier outside the forest only
C25_Witness ==
    /\ stage = "formatted"
    /\ pred # {}
    /\ pred \cap forest_ids(built) = {}
    /\ \E id \in forest_ids(built) : Cardinality(ancestors(built, id)) = 2
    /\ included = {}
    /\ lines = << >>

(* ------------------------------------------------------------------ *)
(* C26  Sibling glyph                                                  *)
(* ------------------------------------------------------------------ *)

\* the node above a node of the forest, NoParent for a root
parent_in(self, id) ==
    IF \E a \in forest_ids(self) : id \in children_ids(self, a)
    THEN CHOOSE a \in forest_ids(self) : id \in children_ids(self, a)
    ELSE NoParent

\* the children of a node that the filter has included, in forest order
included_below(self, id, keep) ==
    SelectSeq(find_tree(self, id)[1].children, LAMBDA t : t.node.id \in keep)

\* the node is the last of its parent's included children
last_included(self, id, keep) ==
    LET siblings == included_below(self, parent_in(self, id), keep)
    IN  siblings # << >> /\ siblings[Len(siblings)].node.id = id

\* the sibling glyph of a rendered line below the roots
glyph_of(row) == row.line[Len(row.line) - 1]

\* C26: the line of a rendered node below the roots carries the corner glyph
\* if and only if the node is the last included child of its parent and the
\* tee glyph otherwise, whatever excluded siblings stand before or behind it.
C26_Glyph ==
    stage = "formatted" =>
        \A i \in DOMAIN lines :
            parent_in(built, lines[i].id) # NoParent =>
                /\ glyph_of(lines[i]) \in {GlyphLast, GlyphMiddle}
                /\ glyph_of(lines[i]) = GlyphLast
                     <=> last_included(built, lines[i].id, included)

\* a rendered node with the corner glyph that has an excluded sibling behind
\* it, and a rendered node with the tee glyph
C26_Witness ==
    /\ stage = "formatted"
    /\ \E i \in DOMAIN lines :
          LET above == parent_in(built, lines[i].id)
              all == find_tree(built, above)[1].children
          IN  /\ above # NoParent
              /\ glyph_of(lines[i]) = GlyphLast
              /\ all[Len(all)].node.id # lines[i].id
              /\ all[Len(all)].node.id \notin included
    /\ \E i \in DOMAIN lines :
          /\ parent_in(built, lines[i].id) # NoParent
          /\ glyph_of(lines[i]) = GlyphMiddle

(* ------------------------------------------------------------------ *)
(* C27  Child marker                                                   *)
(* ------------------------------------------------------------------ *)

\* the child marker of a rendered line below the roots
marker_of(row) == row.line[Len(row.line)]

\* C27: the line of a rendered node below the roots carries the children
\* marker if and only if the node has at least one included child and the
\* leaf marker otherwise; a line with the children marker is followed by the
\* line of a child of its node.
C27_ChildMarker ==
    stage = "formatted" =>
        \A i \in DOMAIN lines :
            parent_in(built, lines[i].id) # NoParent =>
                /\ marker_of(lines[i]) \in {MarkerChildren, MarkerLeaf}
                /\ marker_of(lines[i]) = MarkerChildren
                     <=> included_below(built, lines[i].id, included) # << >>
                /\ marker_of(lines[i]) = MarkerChildren =>
                     /\ i < Len(lines)
                     /\ lines[i + 1].id \in children_ids(built, lines[i].id)

\* a rendered child the predicate is not true of, kept for the grandchild below
\* it, with the children marker; and a rendered leaf with the leaf marker
C27_Witness ==
    /\ stage = "formatted"
    /\ \E i \in DOMAIN lines :
          /\ parent_in(built, lines[i].id) # NoParent
          /\ lines[i].id \notin pred
          /\ marker_of(lines[i]) = MarkerChildren
    /\ \E i \in DOMAIN lines :
          /\ parent_in(built, lines[i].id) # NoParent
          /\ marker_of(lines[i]) = MarkerLeaf

(* ------------------------------------------------------------------ *)
(* C28  Render structure                                               *)
(* ------------------------------------------------------------------ *)

\* number of nodes above a node: 0 for a root
depth(self, id) == Cardinality(ancestors(self, id))

\* the node at depth k on the path from the root to the node
ancestor_at(self, id, k) ==
    CHOOSE a \in ancestors(self, id) : depth(self, a) = k

\* the identifiers of the included nodes, depth first, parents before children
included_preorder(self, keep) ==
    LET nodes == SelectSeq(forest_nodes(self), LAMBDA n : n.id \in keep)
    IN  [i \in DOMAIN nodes |-> nodes[i].id]

\* C28: the render lists the included nodes once each, depth first in the
\* order of the sorted forest; the line of a root carries nothing; the line
\* of a node at depth d >= 1 carries d - 1 continuation markers before its
\* glyph and marker, the k-th for its ancestor at depth k: a bar when that
\* ancestor is not the last included child of its parent, blanks when it is.
C28_RenderStructure ==
    stage = "formatted" =>
        /\ [i \in DOMAIN lines |-> lines[i].id] = included_preorder(built, included)
        /\ \A i \in DOMAIN lines :
              LET id == lines[i].id
                  d == depth(built, id)
              IN  /\ d = 0 => lines[i].line = << >>
                  /\ d >= 1 =>
                        /\ Len(lines[i].line) = (d - 1) + 2
                        /\ \A k \in 1 .. d - 1 :
                              lines[i].line[k] =
                                  IF last_included(built, ancestor_at(built, id, k), included)
                                  THEN PrefixBlank ELSE PrefixBar

\* a grandchild is rendered below a child that has an included sibling after
\* it: its line starts with the bar
C28_Witness ==
    /\ stage = "formatted"
    /\ \E i \in DOMAIN lines :
          /\ depth(built, lines[i].id) = 2
          /\ lines[i].line[1] = PrefixBar
          /\ i < Len(lines)
          /\ depth(built, lines[i + 1].id) = 1

(* ------------------------------------------------------------------ *)
(* C29  Forest shape                                                   *)
(* ------------------------------------------------------------------ *)

\* the identifiers of the roots list of the forest
root_ids(self) == {self[i].node.id : i \in DOMAIN self}

\* C29: a node of the built forest is in the roots list if and only if its
\* record has no parent identifier, and a node X of the forest is in the
\* child list of a node Y of the forest if and only if the parent identifier
\* of X is the identifier of Y.
C29_ForestShape ==
    stage # "input" =>
        \A x \in forest_ids(built) :
            /\ x \in root_ids(built) <=> input_record(x).parent = NoParent
            /\ \A y \in forest_ids(built) :
                  x \in children_ids(built, y) <=> input_record(x).parent = y

\* a root, its child and its grandchild, from records handed over in
\* descending order of identifier
C29_Witness ==
    /\ stage = "built"
    /\ Len(input) >= 3
    /\ input[1].id > input[2].id
    /\ Cardinality(forest_ids(built)) = Len(input)
    /\ \E x, y, z \in forest_ids(built) :
          /\ x \in root_ids(built)
          /\ y \in children_ids(built, x)
          /\ z \in children_ids(built, y)

(* ------------------------------------------------------------------ *)
(* C30  Cooperative cancellation                                       *)
(* ------------------------------------------------------------------ *)

\* main_loop has been left
LoopEnded == pc \in {"reset_ok", "reset_err", "done"}

\* C30: the termination flag is never reset; the flag check that finds it set
\* leaves the main loop; once the loop is left no update, tick or redraw is
\* made any more; and while the flag is set the loop handles at most one
\* more event or tick and makes at most one more redraw before it ends.
C30_Cancellation ==
    [][/\ termination_signal_received => termination_signal_received'
       /\ (pc = "loop_top" /\ termination_signal_received /\ pc' # pc)
             => pc' = "reset_ok"
       /\ LoopEnded => /\ pc' \in {pc, "done"}
                       /\ last' = last
                       /\ since_signal' = since_signal
       /\ since_signal'.events <= 1
       /\ since_signal'.redraws <= 1]_vars

\* the signal came while the loop was polling: one event or tick and one
\* redraw later the flag check has left the loop
C30_Witness ==
    /\ pc = "reset_ok"
    /\ termination_signal_received
    /\ last.op = "redraw"
    /\ since_signal = [events |-> 1, redraws |-> 1]

(* ------------------------------------------------------------------ *)
(* C31  Initial state                                                  *)
(* ------------------------------------------------------------------ *)

\* run_ui has not called the first tick yet: the session is as new left it
NewSession == pc \in {"run_ui", "enter_screen", "enable_raw", "main_loop", "first_tick"}

\* C31: a new session is in mode Normal, sorted by identifier, with the cursor
\* on row 0; its pattern is the one given on the command line, and with none
\* given the pattern made is the compiled empty text, which matches every
\* name and every identifier.
C31_InitialState ==
    /\ NewSession =>
          /\ ui_mode = Normal
          /\ sort_column = "Pid"
          /\ list_state.selected = 0
          /\ pattern.kind = "Regex"
          /\ as_str(pattern) \in InitialPatterns
    /\ LET app == new(<< >>, << >>)
       IN  /\ as_str(app.pattern) = << >>
           /\ app.ui_mode = Normal
           /\ app.sort_column = "Pid"
           /\ app.list_state.selected = 0
           /\ \A str \in MatchInputs : is_match(app.pattern, str)

\* the session made with no pattern on the command line, before its first tick
C31_Witness ==
    /\ pc = "first_tick"
    /\ pattern = empty_regex
    /\ ui_mode = Normal
    /\ sort_column = "Pid"
    /\ list_state.selected = 0
    /\ forest = EmptyForest

(* ------------------------------------------------------------------ *)
(* C32  The predicate of the live filter                               *)
(* ------------------------------------------------------------------ *)

\* update_processes has run in the last call of main_loop
Refreshed == AfterTick \/ (AfterUpdate /\ last.result = "Continue")

\* every running process in the forest, before the filter
unfiltered_forest == sort_by(get_forest(system), sort_column)

\* the processes of a forest whose name or identifier text the compiled
\* pattern matches
matching_in(full) ==
    {n.id : n \in {m \in Range(forest_nodes(full)) :
                      /\ pattern.kind = "Regex"
                      /\ \/ regex_is_match(pattern.regex, m.name)
                         \/ regex_is_match(pattern.regex, to_string(m.id))}}

matching_ids == matching_in(unfiltered_forest)

\* C32: the predicate of the live filter is true of a process if and only if
\* the pattern matches the process's name or the decimal text of its
\* identifier; the rows of the session's list are then the matching
\* processes, the processes above one and the processes below one.
C32_LivePredicate ==
    Refreshed =>
        LET full == unfiltered_forest
            matching == matching_in(full)
            related == UNION {{m} \cup ancestors(full, m) \cup descendants(full, m) :
                              m \in matching}
        IN  /\ pattern_predicate(pattern, full) = matching
            /\ matching \subseteq forest_ids(forest)
            /\ forest_ids(forest) \subseteq related

\* the pattern 2 matches process 2 by its identifier only (its name is t): the
\* list holds process 2 and its parent 1, and not the running process 3
C32_Witness ==
    /\ Refreshed
    /\ as_str(pattern) = <<"2">>
    /\ matching_ids = {2}
    /\ ~regex_is_match(pattern.regex, find_tree(unfiltered_forest, 2)[1].node.name)
    /\ forest_ids(forest) = {1, 2}
    /\ 3 \in forest_ids(unfiltered_forest)

(* ------------------------------------------------------------------ *)
(* C33  Orphan loss                                                    *)
(* ------------------------------------------------------------------ *)

\* following parent identifiers from the record, for at most fuel steps,
\* arrives at a record of the input that has no parent
RECURSIVE reaches_root(_, _)
reaches_root(id, fuel) ==
    /\ id \in input_ids
    /\ \/ input_record(id).parent = NoParent
       \/ fuel > 0 /\ reaches_root(input_record(id).parent, fuel - 1)

\* C33: a record of the input is a node of the built forest if and only if
\* its chain of parent identifiers arrives at a parentless record; a record
\* whose chain ends at an identifier the input does not hold, or runs in a
\* cycle, is left out, and so is every record below it.
C33_OrphanLoss ==
    stage # "input" =>
        \A id \in input_ids :
            /\ id \in forest_ids(built) <=> reaches_root(id, Len(input))
            /\ id \notin forest_ids(built) =>
                  \A below \in input_ids :
                      input_record(below).parent = id => below \notin forest_ids(built)

\* a parentless record is built; a record with an absent parent and the
\* record below it are both left out
C33_Witness ==
    /\ stage = "built"
    /\ \E r, o, c \in input_ids :
          /\ input_record(r).parent = NoParent
          /\ input_record(o).parent = AbsentId
          /\ input_record(c).parent = o
          /\ forest_ids(built) = {r}

(* ------------------------------------------------------------------ *)
(* C34  new_forest never unwraps a missing node                        *)
(* ------------------------------------------------------------------ *)

\* what mk_forest returns to new_forest for the input, with the maps it leaves
made == mk_forest(input_node_map(input), input_children_map(input), input_roots(input))

\* C34: for every input with unique identifiers, also with absent parents,
\* self-parents and parent cycles, mk_forest comes back without unwrapping a
\* missing node: every identifier is taken out of the node map at most once,
\* the nodes made are the identifiers taken out, and the rest is still in
\* the map.
C34_NoUnwrapPanic ==
    stage # "input" =>
        /\ ~made.panicked
        /\ \A id \in input_ids : id_count(made.result, id) <= 1
        /\ DOMAIN made.node_map = input_ids \ forest_ids(made.result)
        /\ forest_ids(built) = forest_ids(made.result)

\* an input with a parentless record, a record that is its own parent and a
\* record in a cycle with no way out has been built
C34_Witness ==
    /\ stage = "built"
    /\ ~made.panicked
    /\ \E r, o, c \in input_ids :
          /\ input_record(r).parent = NoParent
          /\ input_record(o).parent = o
          /\ input_record(c).parent = o /\ c # o
          /\ forest_ids(built) = {r}
          /\ DOMAIN made.node_map = {o, c}

(* ------------------------------------------------------------------ *)
(* C35  Selection persistence                                          *)
(* ------------------------------------------------------------------ *)

\* the identifiers of the processes of the last snapshot
system_ids == {system[i].id : i \in DOMAIN system}

\* a tick has run that was entered with a process selected
TickOnSelection == AfterTick /\ last.mode_before.tag = "ProcessSelected"

\* C35 (as stated): a tick entered in ProcessSelected(id) keeps that mode
\* whenever the process id is in the new snapshot.
C35_KeptWhilePresent ==
    (TickOnSelection /\ last.mode_before.pid \in system_ids)
        => ui_mode = last.mode_before

\* C35 (amended): a tick entered in ProcessSelected(id) keeps that mode if the
\* process id is a node of the rebuilt, filtered forest, and leaves Normal if
\* it is not, whether or not the snapshot still holds the process.
C35_KeptWhileInForest ==
    TickOnSelection =>
        ui_mode = IF last.mode_before.pid \in forest_ids(forest)
                  THEN last.mode_before ELSE Normal

\* the selected process has lived through a tick that brought another
\* snapshot, in which it hangs under another parent
C35_Witness ==
    /\ TickOnSelection
    /\ ui_mode = last.mode_before
    /\ ui_mode.pid \in forest_ids(forest)
    /\ parent_in(forest, ui_mode.pid) # NoParent
    /\ Len(system) = 2

\* a running process lost its selection at a tick: the pattern no longer
\* holds for it or for a process above or below it
C35_DroppedByFilter ==
    /\ TickOnSelection
    /\ ui_mode = Normal
    /\ last.mode_before.pid \in forest_ids(unfiltered_forest)
    /\ last.mode_before.pid \notin forest_ids(forest)

\* a running process lost its selection at a tick: its parent is gone
C35_DroppedAsOrphan ==
    /\ TickOnSelection
    /\ ui_mode = Normal
    /\ last.mode_before.pid \in system_ids
    /\ last.mode_before.pid \notin forest_ids(unfiltered_forest)

(* ------------------------------------------------------------------ *)
(* C36  Refresh liveness                                               *)
(* ------------------------------------------------------------------ *)

\* C36 (as stated): in every run of the main loop that does not end, a tick
\* is executed again and again, also when an input event is ready at every
\* poll.
C36_TickInfinitelyOften == []<>(pc = "done" \/ last.op = "tick")

(* ------------------------------------------------------------------ *)
(* C37  Frame of the pattern                                           *)
(* ------------------------------------------------------------------ *)

\* this step is a call of tick
TickStep == pc \in {"first_tick", "poll"} /\ last'.op = "tick"

\* this step is a call of update with a character or Backspace key without
\* modifier, entered in EditingPattern
EditStep ==
    /\ pc = "poll"
    /\ last'.op = "update"
    /\ last'.mode_before = EditingPattern
    /\ ui_mode = EditingPattern
    /\ last'.event.modifiers = "NONE"
    /\ last'.event.code \in {"Char", "Backspace"}

\* C37: while the session lives, the pattern text changes only in a call of
\* update with a character or Backspace key, without modifier, in mode
\* EditingPattern; every tick, every other key (cursor keys, Tab, Enter, Esc,
\* keys in Normal or ProcessSelected, keys with a modifier) and every redraw
\* leaves it as it is; a tick also leaves the sort key and the cursor row.
C37_PatternFrame ==
    [][/\ (pc' # "done" /\ as_str(pattern') # as_str(pattern)) => EditStep
       /\ TickStep => /\ as_str(pattern') = as_str(pattern)
                      /\ sort_column' = sort_column
                      /\ list_state'.selected = list_state.selected]_vars

\* t has been typed in EditingPattern and is the pattern text
C37_Witness ==
    /\ AfterUpdate
    /\ last.mode_before = EditingPattern
    /\ last.event = Key("NONE", "Char", "t")
    /\ as_str(pattern) = <<"t">>

(* ------------------------------------------------------------------ *)
(* C38  The session under an invalid pattern                           *)
(* ------------------------------------------------------------------ *)

\* C38: while the pattern is Invalid the session's list is empty after every
\* key update and every tick; no process is selected; and Enter, pressed in
\* a mode other than EditingPattern, finds no row under the cursor and leaves
\* the mode as it was.
C38_InvalidPattern ==
    pattern.kind = "Invalid" =>
        /\ Refreshed => render_forest_prefixes(forest) = << >>
        /\ ui_mode.tag # "ProcessSelected"
        /\ (AfterUpdate /\ last.event = Key("NONE", "Enter", "")
              /\ last.mode_before # EditingPattern)
             => ui_mode = last.mode_before

\* with processes running and the cursor on row 0, Enter has been pressed in
\* Normal under an Invalid pattern: the mode is still Normal
C38_Witness ==
    /\ pattern.kind = "Invalid"
    /\ AfterUpdate
    /\ last.event = Key("NONE", "Enter", "")
    /\ last.mode_before = Normal
    /\ ui_mode = Normal
    /\ list_state.selected = 0
    /\ Len(system) = 3

(* ------------------------------------------------------------------ *)
(* C39  Loop ordering                                                  *)
(* ------------------------------------------------------------------ *)

\* the step is a failure of the terminal (poll, read or draw): fatal to the
\* session, the loop is left with the error
TerminalFails ==
    /\ pc \in {"poll", "first_redraw", "redraw"}
    /\ pc' \in {"reset_err", "done"}
    /\ last' = last

\* the step is one redraw
RedrawStep == pc' = "loop_top" /\ last'.op = "redraw"

\* C39 (as stated): main_loop makes one tick and one redraw before its first
\* poll; every later iteration handles one input event or one tick, never
\* both, and then makes one redraw, except that a quit key ends the loop
\* with no redraw; an event that is no key press changes nothing of the
\* session. (A failure of the terminal is fatal and ends the loop.)
C39_LoopOrdering ==
    [][\/ pc' = pc
       \/ TerminalFails
       \/ /\ pc = "first_tick" => last'.op = "tick" /\ pc' = "first_redraw"
          /\ pc \in {"first_redraw", "redraw"} => RedrawStep
          /\ pc' = "poll" => pc = "loop_top" /\ last.op = "redraw"
          /\ pc' = "first_tick" => pc = "main_loop"
          /\ pc = "poll" =>
                /\ last'.op \in {"update", "other", "tick"}
                /\ last'.op \in {"other", "tick"} => pc' = "redraw"
                /\ last'.op = "update" =>
                      \/ pc' = "redraw"
                      \/ pc' = "reset_ok" /\ is_quit(last'.event, ui_mode)
                /\ last'.op = "other" => UNCHANGED appvars]_vars

====
